---- MODULE Spec2Model ----
(***************************************************************************)
(* State-machine model of src/scripts.js: the TypingEffect typewriter       *)
(* (class TypingEffect) and the ParticleSystem motion engine                *)
(* (class ParticleSystem), with the host's timers and animation frames.     *)
(***************************************************************************)
EXTENDS Integers, Sequences, FiniteSets, Bags, TLC

\* ------------------------------------------------------------------------
\* Bounds of the model
\* ------------------------------------------------------------------------
MaxTexts == 2
MaxPhraseLen == 2
MaxPending == 2
MaxCharIndex == MaxPhraseLen + 2

MaxTicks == 2

\* clock steps and setTimeout calls explored for debounce() and the toast
MaxClockSteps == 4
MaxTimerCalls == 3
\* length of one clock step for debounce(), in ms
DebQuantum == 125
\* length of one clock step for the toast, in ms
ToastQuantum == 2000
ParticleCount == 1

\* model units per pixel: positions and velocities are integers in 1/Unit px
Unit == 100

\* ------------------------------------------------------------------------
\* CONFIG.typing and the fixed inter-phrase delay
\* ------------------------------------------------------------------------
ConfigSpeed == 150
ConfigDeleteSpeed == 75
ConfigPauseTime == 2000
CycleDelay == 500

\* ------------------------------------------------------------------------
\* ParticleSystem numbers: interaction radius (px), the inverse of the 0.01
\* force coefficient
\* ------------------------------------------------------------------------
Radius == 100
CoefInv == 100

\* wait argument of the debounced resize listeners, in ms
ResizeWait == 250

\* default duration of ToastManager.show, in ms
DefaultDuration == 4000

\* CONFIG.breakpoints.mobile, in px
MobileBreakpoint == 768

VARIABLES
    \* TypingEffect fields
    texts, options, textIndex, charIndex, isDeleting, isPaused,
    \* host state seen by the typewriter
    reducedMotion,      \* prefersReducedMotion() at construction
    textContent,        \* element.textContent
    twTimers,           \* bag of delays of the pending setTimeout(type) calls
    twPc,               \* "absent" | "constructing" | "ready" | "threw"
    \* bookkeeping of the last operation
    lastOp,             \* "none" | "construct" | "fire" | "pause" | "resume" | "throw"
    lastDelay,          \* delay armed by the last type() body, 0 if none
    typed,              \* TRUE once a type() body has rendered
    atPause             \* <<textIndex, charIndex, isDeleting>> at the last pause()

twVars == <<texts, options, textIndex, charIndex, isDeleting, isPaused,
            reducedMotion, textContent, twTimers, twPc, lastOp, lastDelay,
            typed, atPause>>

VARIABLES
    \* ParticleSystem fields
    container,          \* TRUE iff document.getElementById('particles') exists
    particles,          \* sequence of [x, y, vx, vy, size, opacity, left, top]
    mouse,              \* [x, y]
    \* host state seen by the particle system
    innerWidth, innerHeight,
    domChildren,        \* number of particle elements inside the container
    listeners,          \* TRUE once mousemove and resize listeners are bound
    rafPending,         \* pending requestAnimationFrame(animate) callbacks
    debTimeout,         \* debounce closure: TRUE iff `timeout` is non-null
    debLive,            \* live host timers created by the debounce closure
    psPc,               \* "absent" | "constructing" | "ready"
    \* bookkeeping
    psLastOp,           \* "none" | "construct" | "tick" | "mousemove" | "resize" | "debounce" | "destroy" | "tickthrow"
    ticks,              \* number of animate() runs so far
    seenSize,           \* <<width, height>> read by the last creation, tick or handleResize
    disposed            \* TRUE once destroy() has been called

psVars == <<container, particles, mouse, innerWidth, innerHeight, domChildren,
            listeners, rafPending, debTimeout, debLive, psPc, psLastOp, ticks,
            seenSize, disposed>>

VARIABLES
    \* host state seen by CatalystApp
    readyState,         \* document.readyState: "loading" | "interactive" | "complete"
    hasMatchMedia,      \* TRUE iff window.matchMedia is a function
    hasIntersectionObserver, \* TRUE iff the host defines IntersectionObserver
    hasParticlesEl,     \* TRUE iff #particles exists
    hasTypingText,      \* TRUE iff #typing-text exists
    \* CatalystApp and what initializeComponents() has done
    appPc,              \* "absent" | "constructing" | "waiting" | "initialised"
    completed,          \* statements of the try block that ran to their end
    failed,             \* the statement that threw, "none" if none
    components,         \* keys of this.components
    appTimers,          \* pending setTimeout callbacks: "loading", "typing"
    bodyOpacity,        \* document.body.style.opacity: "" | "0" | "1"
    appLog,             \* "none" | "success" | "error" | "uncaught"
    observer            \* TRUE iff ScrollAnimations holds a connected observer

appVars == <<readyState, hasMatchMedia, hasIntersectionObserver,
             hasParticlesEl, hasTypingText, appPc, completed, failed,
             components, appTimers, bodyOpacity, appLog, observer>>

VARIABLES
    \* host clock and timers seen by debounce() and ToastManager
    now,                \* current time in ms
    hostTimers,         \* pending setTimeout callbacks: set of [id, due]
    nextTimerId,        \* id the next setTimeout call returns
    uiPc,               \* "absent" | "debounce" | "toast" | "nav"
    uiLastOp,           \* the last operation of this part, "none" at the start
    \* one closure made by debounce(func, wait, immediate)
    immediate,          \* the immediate argument
    timeout,            \* the closure's `timeout`: a timer id, 0 for null/undefined
    lastSignal,         \* time of the last call of the wrapper, -1 if none
    funcRuns,           \* number of calls of func so far
    served,             \* TRUE iff func has run since the last call of the wrapper
    cleared,            \* pending timers cancelled by a later call of the wrapper or of show()
    \* ToastManager
    toast,              \* TRUE iff #toast exists
    timeoutId,          \* this.timeoutId: a timer id, 0 for null
    toastShown,         \* TRUE iff the toast has class 'show'
    lastShow,           \* time of the last show() that passed the guard, -1 if none
    lastDuration,       \* its duration argument
    \* MobileNavigation
    navBound,           \* TRUE iff toggle and menu exist, so bindEvents() ran
    isOpen,
    menuActive,         \* menu has class 'active'
    ariaExpanded,       \* aria-expanded of the toggle: "" (not set) | "true" | "false"
    bodyOverflow,       \* document.body.style.overflow: "" | "hidden"
    navInnerWidth,      \* window.innerWidth in px
    navResizePending    \* TRUE iff the debounced resize listener has a timer pending

uiVars == <<now, hostTimers, nextTimerId, uiPc, uiLastOp, immediate, timeout,
            lastSignal, funcRuns, served, cleared, toast, timeoutId,
            toastShown, lastShow, lastDuration, navBound, isOpen, menuActive,
            ariaExpanded, bodyOverflow, navInnerWidth, navResizePending>>

vars == <<twVars, psVars, appVars, uiVars>>

\* ------------------------------------------------------------------------
\* Inputs
\* ------------------------------------------------------------------------
\* a phrase of n characters, its letters alternating from "A" or from "B"
Word(first, n) ==
    [i \in 1..n |-> IF (i % 2 = 1) = first THEN "A" ELSE "B"]

\* the texts argument: up to MaxTexts phrases of 0..MaxPhraseLen characters,
\* neighbouring phrases starting with different letters
TextLists ==
    UNION { { [i \in 1..n |-> Word(i % 2 = 1, lens[i])] :
                lens \in [1..n -> 0..MaxPhraseLen] } : n \in 0..MaxTexts }

\* the options argument; 0 stands for an absent (falsy) field
OptionInputs ==
    { [speed |-> 0,  deleteSpeed |-> 0,  pauseTime |-> 0],
      [speed |-> 40, deleteSpeed |-> 20, pauseTime |-> 90] }

\* what the element shows before the constructor touches it
InitialContents == {<<"Z">>}

\* ------------------------------------------------------------------------
\* TypingEffect
\* ------------------------------------------------------------------------
Min(a, b) == IF a <= b THEN a ELSE b

Max(a, b) == IF a >= b THEN a ELSE b

\* String.prototype.substring(a, b): both indices clamped into [0, length],
\* swapped when a > b
Substring(s, a, b) ==
    LET a1 == Max(0, Min(Len(s), a))
        b1 == Max(0, Min(Len(s), b))
    IN  SubSeq(s, Min(a1, b1) + 1, Max(a1, b1))

\* options.x || CONFIG.typing.x
OrDefault(v, default) == IF v = 0 THEN default ELSE v

ResolveOptions(o) ==
    [speed       |-> OrDefault(o.speed, ConfigSpeed),
     deleteSpeed |-> OrDefault(o.deleteSpeed, ConfigDeleteSpeed),
     pauseTime   |-> OrDefault(o.pauseTime, ConfigPauseTime)]

\* the text written to the element by one type() body
ShownText(currentText, ci, deleting) ==
    IF deleting THEN Substring(currentText, 0, ci - 1)
                ELSE Substring(currentText, 0, ci + 1)

\* charIndex-- / charIndex++
SteppedCharIndex(ci, deleting) == IF deleting THEN ci - 1 ELSE ci + 1

\* the two boundary conditions, evaluated on the stepped charIndex
FinishedTyping(len, ci, deleting) == ~deleting /\ ci = len

FinishedDeleting(len, ci, deleting) ==
    ~FinishedTyping(len, ci, deleting) /\ deleting /\ ci = 0

DeletingAfter(len, ci, deleting) ==
    IF FinishedTyping(len, ci, deleting) THEN TRUE
    ELSE IF FinishedDeleting(len, ci, deleting) THEN FALSE
    ELSE deleting

TextIndexAfter(len, ci, deleting, ti, n) ==
    IF FinishedDeleting(len, ci, deleting) THEN (ti + 1) % n ELSE ti

\* variant: the inter-phrase gap re-arms with deleteSpeed instead of 500
TypeSpeedAfter_NoCycleDelay(len, ci, deleting, opts) ==
    IF FinishedTyping(len, ci, deleting) THEN opts.pauseTime
    ELSE IF deleting THEN opts.deleteSpeed ELSE opts.speed

TypeSpeedAfter(len, ci, deleting, opts) ==
    IF FinishedTyping(len, ci, deleting) THEN opts.pauseTime
    ELSE IF FinishedDeleting(len, ci, deleting) THEN CycleDelay
    ELSE IF deleting THEN opts.deleteSpeed ELSE opts.speed

\* type() past the isPaused check, with `pending` the timers still pending
\* when it runs
TypeBody(pending) ==
    LET currentText == texts[textIndex + 1]
        len == Len(currentText)
        ci == SteppedCharIndex(charIndex, isDeleting)
        typeSpeed == TypeSpeedAfter(len, ci, isDeleting, options)
    IN  /\ textContent' = ShownText(currentText, charIndex, isDeleting)
        /\ charIndex' = ci
        /\ isDeleting' = DeletingAfter(len, ci, isDeleting)
        /\ textIndex' = TextIndexAfter(len, ci, isDeleting, textIndex, Len(texts))
        /\ twTimers' = pending (+) SetToBag({typeSpeed})
        /\ lastDelay' = typeSpeed
        /\ typed' = TRUE

\* texts[textIndex] is undefined: currentText.substring raises a TypeError
\* before anything is written
TypeThrows == Len(texts) = 0

\* variant: type() without the isPaused check
Type_IgnoresPause(paused, pending) == TypeBody(pending)

\* type(): nothing at all when paused, else the body
Type(paused, pending) ==
    IF paused
    THEN /\ twTimers' = pending
         /\ UNCHANGED <<textContent, charIndex, isDeleting, textIndex,
                        lastDelay, typed>>
    ELSE TypeBody(pending)

\* no debounce closure, no timer
DebounceAbsent ==
    /\ immediate = FALSE
    /\ timeout = 0
    /\ lastSignal = -1
    /\ funcRuns = 0
    /\ served = FALSE
    /\ cleared = 0

\* no ToastManager exists
ToastAbsent ==
    /\ toast = FALSE
    /\ timeoutId = 0
    /\ toastShown = FALSE
    /\ lastShow = -1
    /\ lastDuration = 0

\* no MobileNavigation exists
NavAbsent ==
    /\ navBound = FALSE
    /\ isOpen = FALSE
    /\ menuActive = FALSE
    /\ ariaExpanded = ""
    /\ bodyOverflow = ""
    /\ navInnerWidth = 0
    /\ navResizePending = FALSE

\* the clock at the start, no timer armed
ClockStart ==
    /\ now = 0
    /\ hostTimers = {}
    /\ nextTimerId = 1
    /\ uiLastOp = "none"

UIAbsent ==
    /\ ClockStart
    /\ uiPc = "absent"
    /\ DebounceAbsent
    /\ ToastAbsent
    /\ NavAbsent

\* no CatalystApp exists
AppAbsent ==
    /\ readyState = "complete"
    /\ hasMatchMedia = TRUE
    /\ hasIntersectionObserver = TRUE
    /\ hasParticlesEl = FALSE
    /\ hasTypingText = FALSE
    /\ appPc = "absent"
    /\ completed = {}
    /\ failed = "none"
    /\ components = {}
    /\ appTimers = {}
    /\ bodyOpacity = ""
    /\ appLog = "none"
    /\ observer = FALSE

\* no ParticleSystem exists
PSAbsent ==
    /\ container = FALSE
    /\ particles = <<>>
    /\ mouse = [x |-> 0, y |-> 0]
    /\ innerWidth = 0
    /\ innerHeight = 0
    /\ domChildren = 0
    /\ listeners = FALSE
    /\ rafPending = 0
    /\ debTimeout = FALSE
    /\ debLive = 0
    /\ psPc = "absent"
    /\ psLastOp = "none"
    /\ ticks = 0
    /\ seenSize = <<0, 0>>
    /\ disposed = FALSE

TWInit ==
    /\ texts \in TextLists
    /\ \E o \in OptionInputs : options = ResolveOptions(o)
    /\ reducedMotion \in BOOLEAN
    /\ textContent \in InitialContents
    /\ textIndex = 0
    /\ charIndex = 0
    /\ isDeleting = FALSE
    /\ isPaused = FALSE
    /\ twTimers = EmptyBag
    /\ twPc = "constructing"
    /\ lastOp = "none"
    /\ lastDelay = 0
    /\ typed = FALSE
    /\ atPause = <<0, 0, FALSE>>
    /\ PSAbsent
    /\ AppAbsent
    /\ UIAbsent

\* the constructor from the reduced-motion test on
ConstructReduced ==
    /\ twPc = "constructing"
    /\ reducedMotion
    \* texts[0] of an empty list is undefined, which textContent shows as ""
    /\ textContent' = IF Len(texts) = 0 THEN <<>> ELSE texts[1]
    /\ twPc' = "ready"
    /\ lastOp' = "construct"
    /\ UNCHANGED <<texts, options, textIndex, charIndex, isDeleting, isPaused,
                   reducedMotion, twTimers, lastDelay, typed, atPause>>
    /\ UNCHANGED psVars
    /\ UNCHANGED appVars
    /\ UNCHANGED uiVars

ConstructTyping ==
    /\ twPc = "constructing"
    /\ ~reducedMotion
    /\ ~TypeThrows
    /\ Type(isPaused, twTimers)
    /\ twPc' = "ready"
    /\ lastOp' = "construct"
    /\ UNCHANGED <<texts, options, isPaused, reducedMotion, atPause>>
    /\ UNCHANGED psVars
    /\ UNCHANGED appVars
    /\ UNCHANGED uiVars

ConstructThrows ==
    /\ twPc = "constructing"
    /\ ~reducedMotion
    /\ TypeThrows
    /\ twPc' = "threw"
    /\ lastOp' = "throw"
    /\ UNCHANGED <<texts, options, textIndex, charIndex, isDeleting, isPaused,
                   reducedMotion, textContent, twTimers, lastDelay, typed,
                   atPause>>
    /\ UNCHANGED psVars
    /\ UNCHANGED appVars
    /\ UNCHANGED uiVars

\* a pending setTimeout(() => this.type(), d) fires
TimerFire ==
    /\ isPaused \/ charIndex < MaxCharIndex
    /\ \E d \in BagToSet(twTimers) :
          Type(isPaused, twTimers (-) SetToBag({d}))
    /\ lastOp' = "fire"
    /\ UNCHANGED <<texts, options, isPaused, reducedMotion, twPc, atPause>>
    /\ UNCHANGED psVars
    /\ UNCHANGED appVars
    /\ UNCHANGED uiVars

Pause ==
    /\ twPc = "ready"
    /\ isPaused' = TRUE
    /\ lastOp' = "pause"
    /\ atPause' = IF isPaused THEN atPause
                  ELSE <<textIndex, charIndex, isDeleting>>
    /\ UNCHANGED <<texts, options, textIndex, charIndex, isDeleting,
                   reducedMotion, textContent, twTimers, twPc, lastDelay, typed>>
    /\ UNCHANGED psVars
    /\ UNCHANGED appVars
    /\ UNCHANGED uiVars

\* variant: resume() clears the flag and only re-arms the timer
Resume_OnlyRearms ==
    /\ twPc = "ready"
    /\ ~TypeThrows
    /\ BagCardinality(twTimers) < MaxPending
    /\ isPaused' = FALSE
    /\ twTimers' = twTimers (+) SetToBag({options.speed})
    /\ lastOp' = "resume"
    /\ UNCHANGED <<texts, options, textIndex, charIndex, isDeleting,
                   reducedMotion, textContent, twPc, lastDelay, typed, atPause>>
    /\ UNCHANGED psVars
    /\ UNCHANGED appVars
    /\ UNCHANGED uiVars

Resume ==
    /\ twPc = "ready"
    /\ ~TypeThrows
    /\ charIndex < MaxCharIndex
    /\ BagCardinality(twTimers) < MaxPending
    /\ isPaused' = FALSE
    /\ Type(isPaused', twTimers)
    /\ lastOp' = "resume"
    /\ UNCHANGED <<texts, options, reducedMotion, twPc, atPause>>
    /\ UNCHANGED psVars
    /\ UNCHANGED appVars
    /\ UNCHANGED uiVars

ResumeThrows ==
    /\ twPc = "ready"
    /\ TypeThrows
    /\ isPaused' = FALSE
    /\ lastOp' = "throw"
    /\ UNCHANGED <<texts, options, textIndex, charIndex, isDeleting,
                   reducedMotion, textContent, twTimers, twPc, lastDelay,
                   typed, atPause>>
    /\ UNCHANGED psVars
    /\ UNCHANGED appVars
    /\ UNCHANGED uiVars

TWNext ==
    \/ ConstructReduced
    \/ ConstructTyping
    \/ ConstructThrows
    \/ TimerFire
    \/ Pause
    \/ Resume
    \/ ResumeThrows

\* ------------------------------------------------------------------------
\* ParticleSystem
\* ------------------------------------------------------------------------

\* viewport sizes the window can take, in px
ViewportSizes == {<<240, 160>>, <<120, 80>>}

\* clientX / clientY of the pointer events, in px
MousePositions == {<<70, 40>>, <<230, 150>>}

\* Math.random() draws of createParticles: a position inside the viewport
\* (random(0, w) < w), a velocity in [-speed, speed), a size in [2, 6) px and
\* the opacity (in hundredths) as read back from the element's style
PositionSeeds(w, h) ==
    { <<0, 0>>, <<w \div 2, h \div 2>>, <<w - 2, h - 2>> }

MotionSeeds ==
    { [vx |-> -(Unit \div 2), vy |-> -(Unit \div 2), size |-> 2 * Unit, opacity |-> 10],
      [vx |-> 1, vy |-> 1, size |-> 5 * Unit, opacity |-> 49],
      [vx |-> (Unit \div 2) - 1, vy |-> 0, size |-> 3 * Unit, opacity |-> 25] }

ParticleSeeds(w, h) ==
    { [x |-> pos[1], y |-> pos[2], vx |-> mo.vx, vy |-> mo.vy,
       size |-> mo.size, opacity |-> mo.opacity,
       left |-> pos[1], top |-> pos[2]] :
         pos \in PositionSeeds(w, h), mo \in MotionSeeds }

\* integer division rounding toward zero
TruncDiv(a, b) == IF a >= 0 THEN a \div b ELSE -((-a) \div b)

RECURSIVE IsqrtIter(_, _, _)
IsqrtIter(n, lo, hi) ==
    IF lo >= hi THEN lo
    ELSE LET mid == (lo + hi + 1) \div 2
         IN  IF mid * mid <= n THEN IsqrtIter(n, mid, hi)
                               ELSE IsqrtIter(n, lo, mid - 1)

\* Math.sqrt, rounded down to the model unit
Isqrt(n) == IsqrtIter(n, 0, 46340)

\* variant: the constructor tests the container only
EngineEnabled_IgnoresReducedMotion(hasContainer, reduced) == hasContainer

\* !this.container || prefersReducedMotion() is false
EngineEnabled(hasContainer, reduced) == hasContainer /\ ~reduced

\* particle.x <= 0 || particle.x >= window.innerWidth
HitsEdge(pos, limit) == pos <= 0 \/ pos >= limit

\* variant: the velocity is not negated on a hit
Reflected_Never(v, hit) == v

\* particle.vx *= -1 on a hit
Reflected(v, hit) == IF hit THEN -v ELSE v

\* variant: a hit clamps at 0 only
Clamped_LowerOnly(pos, limit, hit) == IF hit THEN Max(0, pos) ELSE pos

\* Math.max(0, Math.min(limit, pos)) on a hit
Clamped(pos, limit, hit) == IF hit THEN Max(0, Min(limit, pos)) ELSE pos

\* variant: the interaction radius is 200
Near_WiderRadius(dx, dy) ==
    dx * dx + dy * dy < (2 * Radius * Unit) * (2 * Radius * Unit)

\* distance < 100, with dx and dy in model units
Near(dx, dy) == dx * dx + dy * dy < (Radius * Unit) * (Radius * Unit)

\* d * force * 0.01 with force = (100 - distance) / 100, in model units
Pull(d, distance) ==
    TruncDiv(d * (Radius * Unit - distance), Radius * Unit * CoefInv)

\* variant: the mouse interaction adds the pull instead of subtracting it
ForceDelta_Attracts(d, dx, dy) ==
    IF Near(dx, dy) THEN Pull(d, Isqrt(dx * dx + dy * dy)) ELSE 0

\* the velocity change of the mouse-interaction block for offsets dx, dy
ForceDelta(d, dx, dy) ==
    IF Near(dx, dy) THEN -Pull(d, Isqrt(dx * dx + dy * dy)) ELSE 0

\* the forEach body of animate() for one particle
TickParticle(p, w, h, m) ==
    LET x1 == p.x + p.vx
        y1 == p.y + p.vy
        hitX == HitsEdge(x1, w)
        hitY == HitsEdge(y1, h)
        x2 == Clamped(x1, w, hitX)
        y2 == Clamped(y1, h, hitY)
        dx == m.x - x2
        dy == m.y - y2
    IN  [p EXCEPT !.x = x2, !.y = y2,
                  !.vx = Reflected(p.vx, hitX) + ForceDelta(dx, dx, dy),
                  !.vy = Reflected(p.vy, hitY) + ForceDelta(dy, dx, dy),
                  !.left = x2, !.top = y2]

\* variant: handleResize() clamps x only
ResizeParticle_WidthOnly(p, w, h) ==
    [p EXCEPT !.x = IF p.x > w THEN w ELSE p.x]

\* the forEach body of handleResize() for one particle
ResizeParticle(p, w, h) ==
    [p EXCEPT !.x = IF p.x > w THEN w ELSE p.x,
              !.y = IF p.y > h THEN h ELSE p.y]

\* variant: animate() without its requestAnimationFrame call
Animate_NoReschedule(ps, pendingFrames) ==
    /\ particles' = [i \in 1..Len(ps) |->
                        TickParticle(ps[i], innerWidth, innerHeight, mouse)]
    /\ rafPending' = pendingFrames
    /\ ticks' = ticks + 1
    /\ seenSize' = <<innerWidth, innerHeight>>

\* animate(): every particle, then requestAnimationFrame
Animate(ps, pendingFrames) ==
    /\ particles' = [i \in 1..Len(ps) |->
                        TickParticle(ps[i], innerWidth, innerHeight, mouse)]
    /\ rafPending' = pendingFrames + 1
    /\ ticks' = ticks + 1
    /\ seenSize' = <<innerWidth, innerHeight>>

\* variant: the creation loop runs once more
CreatedIndices_OffByOne == 1..(ParticleCount + 1)

\* the iterations of the creation loop of createParticles()
CreatedIndices == 1..ParticleCount

\* no TypingEffect exists
TWAbsent ==
    /\ texts = <<>>
    /\ options = ResolveOptions([speed |-> 0, deleteSpeed |-> 0, pauseTime |-> 0])
    /\ textContent = <<>>
    /\ textIndex = 0
    /\ charIndex = 0
    /\ isDeleting = FALSE
    /\ isPaused = FALSE
    /\ twTimers = EmptyBag
    /\ twPc = "absent"
    /\ lastOp = "none"
    /\ lastDelay = 0
    /\ typed = FALSE
    /\ atPause = <<0, 0, FALSE>>

PSInit ==
    /\ container \in BOOLEAN
    /\ reducedMotion \in BOOLEAN
    /\ \E size \in ViewportSizes :
          /\ innerWidth = size[1] * Unit
          /\ innerHeight = size[2] * Unit
          /\ seenSize = <<size[1] * Unit, size[2] * Unit>>
    /\ particles = <<>>
    /\ mouse = [x |-> 0, y |-> 0]
    /\ domChildren = 0
    /\ listeners = FALSE
    /\ rafPending = 0
    /\ debTimeout = FALSE
    /\ debLive = 0
    /\ psPc = "constructing"
    /\ psLastOp = "none"
    /\ ticks = 0
    /\ disposed = FALSE
    /\ TWAbsent
    /\ AppAbsent
    /\ UIAbsent

\* constructor: the early return
PSConstructIdle ==
    /\ psPc = "constructing"
    /\ ~EngineEnabled(container, reducedMotion)
    /\ psPc' = "ready"
    /\ psLastOp' = "construct"
    /\ UNCHANGED <<container, particles, mouse, innerWidth, innerHeight,
                   domChildren, listeners, rafPending, debTimeout, debLive,
                   ticks, seenSize>>
    /\ UNCHANGED disposed
    /\ UNCHANGED twVars
    /\ UNCHANGED appVars
    /\ UNCHANGED uiVars

\* constructor: init() = createParticles(); bindEvents(); animate()
PSConstructInit ==
    /\ psPc = "constructing"
    /\ EngineEnabled(container, reducedMotion)
    /\ \E created \in [CreatedIndices -> ParticleSeeds(innerWidth, innerHeight)] :
          Animate(created, rafPending)
    /\ domChildren' = domChildren + ParticleCount
    /\ listeners' = TRUE
    /\ psPc' = "ready"
    /\ psLastOp' = "construct"
    /\ UNCHANGED <<container, mouse, innerWidth, innerHeight, debTimeout, debLive>>
    /\ UNCHANGED disposed
    /\ UNCHANGED twVars
    /\ UNCHANGED appVars
    /\ UNCHANGED uiVars

\* a pending animation frame runs animate()
Tick ==
    /\ rafPending > 0
    /\ ticks < MaxTicks
    /\ Animate(particles, rafPending - 1)
    /\ psLastOp' = "tick"
    /\ UNCHANGED <<container, mouse, innerWidth, innerHeight, domChildren,
                   listeners, debTimeout, debLive, psPc>>
    /\ UNCHANGED disposed
    /\ UNCHANGED twVars
    /\ UNCHANGED appVars
    /\ UNCHANGED uiVars

\* the pointer moves; the mousemove listener, if bound, stores it
MouseMove ==
    /\ psPc = "ready"
    /\ listeners
    /\ \E pos \in MousePositions :
          mouse' = [x |-> pos[1] * Unit, y |-> pos[2] * Unit]
    /\ psLastOp' = "mousemove"
    /\ UNCHANGED <<container, particles, innerWidth, innerHeight, domChildren,
                   listeners, rafPending, debTimeout, debLive, psPc, ticks,
                   seenSize>>
    /\ UNCHANGED disposed
    /\ UNCHANGED twVars
    /\ UNCHANGED appVars
    /\ UNCHANGED uiVars

\* the window is resized; the debounced resize listener, if bound, re-arms
\* its timer (clearTimeout(timeout); timeout = setTimeout(later, wait))
WindowResize ==
    /\ psPc = "ready"
    /\ \E size \in ViewportSizes :
          /\ <<size[1] * Unit, size[2] * Unit>> # <<innerWidth, innerHeight>>
          /\ innerWidth' = size[1] * Unit
          /\ innerHeight' = size[2] * Unit
    /\ IF listeners
       THEN /\ debLive' = (IF debTimeout THEN debLive - 1 ELSE debLive) + 1
            /\ debTimeout' = TRUE
       ELSE UNCHANGED <<debTimeout, debLive>>
    /\ psLastOp' = "resize"
    /\ UNCHANGED <<container, particles, mouse, domChildren, listeners,
                   rafPending, psPc, ticks, seenSize>>
    /\ UNCHANGED disposed
    /\ UNCHANGED twVars
    /\ UNCHANGED appVars
    /\ UNCHANGED uiVars

\* the debounce timer fires: later() clears timeout and runs handleResize()
DebounceFire ==
    /\ debLive > 0
    /\ debLive' = debLive - 1
    /\ debTimeout' = FALSE
    /\ particles' = [i \in 1..Len(particles) |->
                        ResizeParticle(particles[i], innerWidth, innerHeight)]
    /\ seenSize' = <<innerWidth, innerHeight>>
    /\ psLastOp' = "debounce"
    /\ UNCHANGED <<container, mouse, innerWidth, innerHeight, domChildren,
                   listeners, rafPending, psPc, ticks>>
    /\ UNCHANGED disposed
    /\ UNCHANGED twVars
    /\ UNCHANGED appVars
    /\ UNCHANGED uiVars

\* destroy(): container.innerHTML = '' when there is a container
Destroy ==
    /\ psPc = "ready"
    /\ domChildren' = IF container THEN 0 ELSE domChildren
    /\ psLastOp' = "destroy"
    /\ UNCHANGED <<container, particles, mouse, innerWidth, innerHeight,
                   listeners, rafPending, debTimeout, debLive, psPc, ticks,
                   seenSize>>
    /\ disposed' = TRUE
    /\ UNCHANGED twVars
    /\ UNCHANGED appVars
    /\ UNCHANGED uiVars

\* a pending animation frame runs animate() and the forEach body throws at
\* particle k while reading particle.element.style (a TypeError when the
\* entry has no element): the particles before k are complete, particle k
\* has its physics but no render push, and requestAnimationFrame, the last
\* statement of animate(), is not reached
TickThrows ==
    /\ psPc = "ready"
    /\ rafPending > 0
    /\ ticks < MaxTicks
    /\ \E k \in 1..Len(particles) :
          particles' =
              [i \in 1..Len(particles) |->
                  LET q == TickParticle(particles[i], innerWidth,
                                        innerHeight, mouse)
                  IN  IF i < k THEN q
                      ELSE IF i = k
                           THEN [q EXCEPT !.left = particles[i].left,
                                          !.top = particles[i].top]
                           ELSE particles[i]]
    /\ rafPending' = rafPending - 1
    /\ ticks' = ticks + 1
    /\ seenSize' = <<innerWidth, innerHeight>>
    /\ psLastOp' = "tickthrow"
    /\ UNCHANGED <<container, mouse, innerWidth, innerHeight, domChildren,
                   listeners, debTimeout, debLive, psPc, disposed>>
    /\ UNCHANGED twVars
    /\ UNCHANGED appVars
    /\ UNCHANGED uiVars

PSNext ==
    \/ PSConstructIdle
    \/ PSConstructInit
    \/ Tick
    \/ MouseMove
    \/ WindowResize
    \/ DebounceFire
    \/ Destroy

\* ------------------------------------------------------------------------
\* CatalystApp
\* ------------------------------------------------------------------------
\* the statements of the try block of initializeComponents(), in order
Steps ==
    << "loadingAnimation", "toastManager", "mobileNavigation",
       "smoothScrolling", "headerScrollEffects", "scrollAnimations",
       "contactForm", "interactiveButtons", "particleSystem", "typingTimer",
       "loaded", "log" >>

\* the statements that assign a key of this.components
ComponentSteps ==
    { "toastManager", "mobileNavigation", "smoothScrolling",
      "headerScrollEffects", "scrollAnimations", "contactForm",
      "interactiveButtons", "particleSystem" }

\* prefersReducedMotion() calls window.matchMedia: a TypeError without it
ReducedMotionThrows == ~hasMatchMedia

\* the statement throws on this host:
\*   new ScrollAnimations(): init() calls prefersReducedMotion() and, when it
\*     is false, new IntersectionObserver(...), a ReferenceError without it;
\*   new ParticleSystem(): calls prefersReducedMotion() when #particles exists
Throws(step) ==
    CASE step = "scrollAnimations" ->
            \/ ReducedMotionThrows
            \/ ~reducedMotion /\ ~hasIntersectionObserver
      [] step = "particleSystem" -> hasParticlesEl /\ ReducedMotionThrows
      [] OTHER -> FALSE

\* index of the first statement that throws, 0 if none does
FailIndex ==
    IF \E i \in 1..Len(Steps) : Throws(Steps[i])
    THEN CHOOSE i \in 1..Len(Steps) :
            /\ Throws(Steps[i])
            /\ \A j \in 1..(i - 1) : ~Throws(Steps[j])
    ELSE 0

\* the statements that run to their end: all of them, or those before the
\* throw, which transfers control to the catch block
Completed ==
    { Steps[i] : i \in 1..(IF FailIndex = 0 THEN Len(Steps) ELSE FailIndex - 1) }

\* initializeComponents(): the try block up to the first throw, then catch
InitializeComponents ==
    /\ completed' = Completed
    /\ failed' = IF FailIndex = 0 THEN "none" ELSE Steps[FailIndex]
    /\ components' = Completed \cap ComponentSteps
    /\ appTimers' = {t \in {"loading", "typing"} :
                        \/ t = "loading" /\ "loadingAnimation" \in Completed
                        \/ t = "typing" /\ "typingTimer" \in Completed}
    /\ bodyOpacity' = IF "loadingAnimation" \in Completed THEN "0" ELSE bodyOpacity
    /\ observer' = ("scrollAnimations" \in Completed /\ ~reducedMotion)
    /\ appLog' = IF FailIndex = 0 THEN "success" ELSE "error"
    /\ appPc' = "initialised"

AppInit ==
    /\ readyState \in {"loading", "complete"}
    /\ hasMatchMedia \in BOOLEAN
    /\ hasIntersectionObserver \in BOOLEAN
    /\ hasParticlesEl \in BOOLEAN
    /\ hasTypingText \in BOOLEAN
    /\ reducedMotion \in BOOLEAN
    /\ appPc = "constructing"
    /\ completed = {}
    /\ failed = "none"
    /\ components = {}
    /\ appTimers = {}
    /\ bodyOpacity = ""
    /\ appLog = "none"
    /\ observer = FALSE
    /\ TWAbsent
    /\ PSAbsent
    /\ UIAbsent

\* constructor, init(): the document is still loading, so
\* initializeComponents() is left to the DOMContentLoaded listener
AppConstructDeferred ==
    /\ appPc = "constructing"
    /\ readyState = "loading"
    /\ appPc' = "waiting"
    /\ UNCHANGED <<readyState, hasMatchMedia, hasIntersectionObserver,
                   hasParticlesEl, hasTypingText, completed, failed,
                   components, appTimers, bodyOpacity, appLog, observer>>
    /\ UNCHANGED <<twVars, psVars, uiVars>>

\* constructor, init(): the document is loaded
AppConstructNow ==
    /\ appPc = "constructing"
    /\ readyState # "loading"
    /\ InitializeComponents
    /\ UNCHANGED <<readyState, hasMatchMedia, hasIntersectionObserver,
                   hasParticlesEl, hasTypingText>>
    /\ UNCHANGED <<twVars, psVars, uiVars>>

\* the DOMContentLoaded listener
DOMContentLoaded ==
    /\ appPc = "waiting"
    /\ readyState' = "interactive"
    /\ InitializeComponents
    /\ UNCHANGED <<hasMatchMedia, hasIntersectionObserver, hasParticlesEl,
                   hasTypingText>>
    /\ UNCHANGED <<twVars, psVars, uiVars>>

\* the 100 ms timer of initializeLoadingAnimation()
LoadingTimerFire ==
    /\ "loading" \in appTimers
    /\ appTimers' = appTimers \ {"loading"}
    /\ bodyOpacity' = "1"
    /\ UNCHANGED <<readyState, hasMatchMedia, hasIntersectionObserver,
                   hasParticlesEl, hasTypingText, appPc, completed, failed,
                   components, appLog, observer>>
    /\ UNCHANGED <<twVars, psVars, uiVars>>

\* the 3000 ms timer: initializeTypingEffect(); the TypingEffect constructor
\* calls prefersReducedMotion(), outside any try block
InitializeTypingEffect ==
    /\ "typing" \in appTimers
    /\ appTimers' = appTimers \ {"typing"}
    /\ IF ~hasTypingText
       THEN UNCHANGED <<components, appLog>>
       ELSE IF ReducedMotionThrows
            THEN /\ appLog' = "uncaught"
                 /\ UNCHANGED components
            ELSE /\ components' = components \cup {"typingEffect"}
                 /\ UNCHANGED appLog
    /\ UNCHANGED <<readyState, hasMatchMedia, hasIntersectionObserver,
                   hasParticlesEl, hasTypingText, appPc, completed, failed,
                   bodyOpacity, observer>>
    /\ UNCHANGED <<twVars, psVars, uiVars>>

\* destroy(): calls destroy() of the components that have one;
\* ScrollAnimations.destroy() disconnects its observer
AppDestroy ==
    /\ appPc = "initialised"
    /\ observer
    /\ observer' = FALSE
    /\ UNCHANGED <<readyState, hasMatchMedia, hasIntersectionObserver,
                   hasParticlesEl, hasTypingText, appPc, completed, failed,
                   components, appTimers, bodyOpacity, appLog>>
    /\ UNCHANGED <<twVars, psVars, uiVars>>

AppNext ==
    \/ AppConstructDeferred
    \/ AppConstructNow
    \/ DOMContentLoaded
    \/ LoadingTimerFire
    \/ InitializeTypingEffect
    \/ AppDestroy

\* ------------------------------------------------------------------------
\* debounce() as used for the resize listeners
\* ------------------------------------------------------------------------
\* setTimeout(callback, delay) called at time t, returning id
SetTimeout(timers, id, t, delay) ==
    timers \cup {[id |-> id, due |-> t + delay]}

\* variant: clearTimeout cancels nothing
ClearTimeout_Noop(timers, id) == timers

\* clearTimeout(id): cancels the timer with that id if it is still pending;
\* null, undefined and the id of a fired timer cancel nothing
ClearTimeout(timers, id) == {t \in timers : t.id # id}

\* the timer with this id is still pending
Live(timers, id) == \E t \in timers : t.id = id

DebInit ==
    /\ ClockStart
    /\ uiPc = "debounce"
    /\ immediate \in BOOLEAN
    /\ timeout = 0
    /\ lastSignal = -1
    /\ funcRuns = 0
    /\ served = FALSE
    /\ cleared = 0
    /\ ToastAbsent
    /\ NavAbsent
    /\ reducedMotion = FALSE
    /\ TWAbsent
    /\ PSAbsent
    /\ AppAbsent

\* executedFunction(): a trigger signal reaches the wrapper
DebSignal ==
    /\ uiPc = "debounce"
    /\ nextTimerId <= MaxTimerCalls
    /\ LET callNow == immediate /\ timeout = 0
       IN  /\ funcRuns' = IF callNow THEN funcRuns + 1 ELSE funcRuns
           /\ served' = callNow
    /\ hostTimers' = SetTimeout(ClearTimeout(hostTimers, timeout),
                                nextTimerId, now, ResizeWait)
    /\ cleared' = IF Live(hostTimers, timeout) THEN cleared + 1 ELSE cleared
    /\ timeout' = nextTimerId
    /\ nextTimerId' = nextTimerId + 1
    /\ lastSignal' = now
    /\ uiLastOp' = "signal"
    /\ UNCHANGED <<now, uiPc, immediate>>
    /\ UNCHANGED <<toast, timeoutId, toastShown, lastShow, lastDuration>>
    /\ UNCHANGED <<navBound, isOpen, menuActive, ariaExpanded, bodyOverflow,
                   navInnerWidth, navResizePending>>
    /\ UNCHANGED <<twVars, psVars, appVars>>

\* a due timer fires: later()
DebLater ==
    /\ uiPc = "debounce"
    /\ \E t \in hostTimers :
          /\ t.due <= now
          /\ hostTimers' = hostTimers \ {t}
    /\ timeout' = 0
    /\ IF immediate
       THEN UNCHANGED <<funcRuns, served>>
       ELSE /\ funcRuns' = funcRuns + 1
            /\ served' = TRUE
    /\ uiLastOp' = "later"
    /\ UNCHANGED <<now, nextTimerId, uiPc, immediate, lastSignal, cleared>>
    /\ UNCHANGED <<toast, timeoutId, toastShown, lastShow, lastDuration>>
    /\ UNCHANGED <<navBound, isOpen, menuActive, ariaExpanded, bodyOverflow,
                   navInnerWidth, navResizePending>>
    /\ UNCHANGED <<twVars, psVars, appVars>>

\* time passes
DebAdvance ==
    /\ uiPc = "debounce"
    /\ now < MaxClockSteps * DebQuantum
    /\ now' = now + DebQuantum
    /\ uiLastOp' = "advance"
    /\ UNCHANGED <<hostTimers, nextTimerId, uiPc, immediate, timeout,
                   lastSignal, funcRuns, served, cleared>>
    /\ UNCHANGED <<toast, timeoutId, toastShown, lastShow, lastDuration>>
    /\ UNCHANGED <<navBound, isOpen, menuActive, ariaExpanded, bodyOverflow,
                   navInnerWidth, navResizePending>>
    /\ UNCHANGED <<twVars, psVars, appVars>>

DebNext ==
    \/ DebSignal
    \/ DebLater
    \/ DebAdvance

\* ------------------------------------------------------------------------
\* ToastManager
\* ------------------------------------------------------------------------
\* the duration argument of show(): the default and a shorter one
Durations == {DefaultDuration, DefaultDuration \div 2}

\* variant: show() arms its timer without cancelling the previous one
TimersAfterShow_KeepsOld(timers, id, newId, t, duration) ==
    SetTimeout(timers, newId, t, duration)

\* the timer part of show(): if (this.timeoutId) clearTimeout(this.timeoutId);
\* this.timeoutId = setTimeout(() => this.hide(), duration)
TimersAfterShow(timers, id, newId, t, duration) ==
    SetTimeout(IF id # 0 THEN ClearTimeout(timers, id) ELSE timers,
               newId, t, duration)

\* hide() run with these timers pending
Hide(timers) ==
    IF ~toast
    THEN /\ hostTimers' = timers
         /\ UNCHANGED <<toastShown, timeoutId>>
    ELSE /\ toastShown' = FALSE
         /\ hostTimers' = IF timeoutId # 0 THEN ClearTimeout(timers, timeoutId)
                          ELSE timers
         /\ timeoutId' = 0

ToastInit ==
    /\ ClockStart
    /\ uiPc = "toast"
    /\ toast \in BOOLEAN
    /\ timeoutId = 0
    /\ toastShown = FALSE
    /\ lastShow = -1
    /\ lastDuration = 0
    /\ DebounceAbsent
    /\ NavAbsent
    /\ reducedMotion = FALSE
    /\ TWAbsent
    /\ PSAbsent
    /\ AppAbsent

\* show(message, type, duration)
ToastShow ==
    /\ uiPc = "toast"
    /\ nextTimerId <= MaxTimerCalls
    /\ IF ~toast
       THEN UNCHANGED <<hostTimers, nextTimerId, timeoutId, toastShown,
                        lastShow, lastDuration, cleared>>
       ELSE \E duration \in Durations :
              /\ hostTimers' = TimersAfterShow(hostTimers, timeoutId,
                                               nextTimerId, now, duration)
              /\ cleared' = IF Live(hostTimers, timeoutId) THEN cleared + 1
                            ELSE cleared
              /\ timeoutId' = nextTimerId
              /\ nextTimerId' = nextTimerId + 1
              /\ toastShown' = TRUE
              /\ lastShow' = now
              /\ lastDuration' = duration
    /\ uiLastOp' = "show"
    /\ UNCHANGED <<now, uiPc, toast>>
    /\ UNCHANGED <<immediate, timeout, lastSignal, funcRuns, served>>
    /\ UNCHANGED <<navBound, isOpen, menuActive, ariaExpanded, bodyOverflow,
                   navInnerWidth, navResizePending>>
    /\ UNCHANGED <<twVars, psVars, appVars>>

\* hide() called from outside
ToastHide ==
    /\ uiPc = "toast"
    /\ Hide(hostTimers)
    /\ uiLastOp' = "hide"
    /\ UNCHANGED <<now, nextTimerId, uiPc, toast, lastShow, lastDuration,
                   cleared>>
    /\ UNCHANGED <<immediate, timeout, lastSignal, funcRuns, served>>
    /\ UNCHANGED <<navBound, isOpen, menuActive, ariaExpanded, bodyOverflow,
                   navInnerWidth, navResizePending>>
    /\ UNCHANGED <<twVars, psVars, appVars>>

\* a due timer fires: () => this.hide()
ToastTimerFire ==
    /\ uiPc = "toast"
    /\ \E t \in hostTimers :
          /\ t.due <= now
          /\ Hide(hostTimers \ {t})
    /\ uiLastOp' = "expire"
    /\ UNCHANGED <<now, nextTimerId, uiPc, toast, lastShow, lastDuration,
                   cleared>>
    /\ UNCHANGED <<immediate, timeout, lastSignal, funcRuns, served>>
    /\ UNCHANGED <<navBound, isOpen, menuActive, ariaExpanded, bodyOverflow,
                   navInnerWidth, navResizePending>>
    /\ UNCHANGED <<twVars, psVars, appVars>>

\* time passes
ToastAdvance ==
    /\ uiPc = "toast"
    /\ now < MaxClockSteps * ToastQuantum
    /\ now' = now + ToastQuantum
    /\ uiLastOp' = "advance"
    /\ UNCHANGED <<hostTimers, nextTimerId, uiPc, toast, timeoutId,
                   toastShown, lastShow, lastDuration, cleared>>
    /\ UNCHANGED <<immediate, timeout, lastSignal, funcRuns, served>>
    /\ UNCHANGED <<navBound, isOpen, menuActive, ariaExpanded, bodyOverflow,
                   navInnerWidth, navResizePending>>
    /\ UNCHANGED <<twVars, psVars, appVars>>

ToastNext ==
    \/ ToastShow
    \/ ToastHide
    \/ ToastTimerFire
    \/ ToastAdvance

\* ------------------------------------------------------------------------
\* MobileNavigation
\* ------------------------------------------------------------------------
\* window widths around the mobile breakpoint, in px
NavWidths ==
    {MobileBreakpoint \div 2, MobileBreakpoint, MobileBreakpoint + 1,
     2 * MobileBreakpoint}

\* keys of the keydown events
Keys == {"Escape", "Enter"}

\* openMenu()
OpenMenu ==
    /\ isOpen' = TRUE
    /\ menuActive' = TRUE
    /\ ariaExpanded' = "true"
    /\ bodyOverflow' = "hidden"

\* variant: closeMenu() leaves the body's overflow alone
CloseMenu_KeepsOverflow ==
    /\ isOpen' = FALSE
    /\ menuActive' = FALSE
    /\ ariaExpanded' = "false"
    /\ bodyOverflow' = bodyOverflow

\* closeMenu()
CloseMenu ==
    /\ isOpen' = FALSE
    /\ menuActive' = FALSE
    /\ ariaExpanded' = "false"
    /\ bodyOverflow' = ""

\* a handler of the form: if (cond && this.isOpen) this.closeMenu()
CloseIf(cond) ==
    IF navBound /\ cond /\ isOpen
    THEN CloseMenu
    ELSE UNCHANGED <<isOpen, menuActive, ariaExpanded, bodyOverflow>>

\* constructor: the menu as the page delivers it, closed
NavInit ==
    /\ ClockStart
    /\ uiPc = "nav"
    /\ navBound \in BOOLEAN
    /\ isOpen = FALSE
    /\ menuActive = FALSE
    /\ ariaExpanded = ""
    /\ bodyOverflow = ""
    /\ navInnerWidth \in NavWidths
    /\ navResizePending = FALSE
    /\ DebounceAbsent
    /\ ToastAbsent
    /\ reducedMotion = FALSE
    /\ TWAbsent
    /\ PSAbsent
    /\ AppAbsent

\* a click on the toggle: toggleMenu(); the document click listener sees a
\* target inside the toggle and does nothing
ToggleClick ==
    /\ uiPc = "nav"
    /\ IF ~navBound
       THEN UNCHANGED <<isOpen, menuActive, ariaExpanded, bodyOverflow>>
       ELSE IF isOpen THEN CloseMenu ELSE OpenMenu
    /\ uiLastOp' = "toggle"
    /\ UNCHANGED <<navBound, navInnerWidth, navResizePending>>
    /\ UNCHANGED <<now, hostTimers, nextTimerId, uiPc>>
    /\ UNCHANGED <<immediate, timeout, lastSignal, funcRuns, served, cleared>>
    /\ UNCHANGED <<toast, timeoutId, toastShown, lastShow, lastDuration>>
    /\ UNCHANGED <<twVars, psVars, appVars>>

\* a click on a .nav__link: its listener closes an open menu; the document
\* click listener then finds the menu closed
LinkClick ==
    /\ uiPc = "nav"
    /\ CloseIf(TRUE)
    /\ uiLastOp' = "link"
    /\ UNCHANGED <<navBound, navInnerWidth, navResizePending>>
    /\ UNCHANGED <<now, hostTimers, nextTimerId, uiPc>>
    /\ UNCHANGED <<immediate, timeout, lastSignal, funcRuns, served, cleared>>
    /\ UNCHANGED <<toast, timeoutId, toastShown, lastShow, lastDuration>>
    /\ UNCHANGED <<twVars, psVars, appVars>>

\* a click elsewhere in the document, inside the menu or outside menu and toggle
DocumentClick ==
    /\ uiPc = "nav"
    /\ \E insideMenu \in BOOLEAN :
          /\ CloseIf(~insideMenu)
          /\ uiLastOp' = IF insideMenu THEN "click-inside" ELSE "click-outside"
    /\ UNCHANGED <<navBound, navInnerWidth, navResizePending>>
    /\ UNCHANGED <<now, hostTimers, nextTimerId, uiPc>>
    /\ UNCHANGED <<immediate, timeout, lastSignal, funcRuns, served, cleared>>
    /\ UNCHANGED <<toast, timeoutId, toastShown, lastShow, lastDuration>>
    /\ UNCHANGED <<twVars, psVars, appVars>>

\* a keydown event
KeyDown ==
    /\ uiPc = "nav"
    /\ \E key \in Keys :
          /\ CloseIf(key = "Escape")
          /\ uiLastOp' = key
    /\ UNCHANGED <<navBound, navInnerWidth, navResizePending>>
    /\ UNCHANGED <<now, hostTimers, nextTimerId, uiPc>>
    /\ UNCHANGED <<immediate, timeout, lastSignal, funcRuns, served, cleared>>
    /\ UNCHANGED <<toast, timeoutId, toastShown, lastShow, lastDuration>>
    /\ UNCHANGED <<twVars, psVars, appVars>>

\* the window is resized; the debounced listener, if bound, arms its timer
NavResize ==
    /\ uiPc = "nav"
    /\ \E w \in NavWidths :
          /\ w # navInnerWidth
          /\ navInnerWidth' = w
    /\ navResizePending' = navBound
    /\ uiLastOp' = "resize"
    /\ UNCHANGED <<navBound, isOpen, menuActive, ariaExpanded, bodyOverflow>>
    /\ UNCHANGED <<now, hostTimers, nextTimerId, uiPc>>
    /\ UNCHANGED <<immediate, timeout, lastSignal, funcRuns, served, cleared>>
    /\ UNCHANGED <<toast, timeoutId, toastShown, lastShow, lastDuration>>
    /\ UNCHANGED <<twVars, psVars, appVars>>

\* the debounce timer fires: the resize handler
NavResizeFire ==
    /\ uiPc = "nav"
    /\ navResizePending
    /\ navResizePending' = FALSE
    /\ CloseIf(navInnerWidth > MobileBreakpoint)
    /\ uiLastOp' = "resizefire"
    /\ UNCHANGED <<navBound, navInnerWidth>>
    /\ UNCHANGED <<now, hostTimers, nextTimerId, uiPc>>
    /\ UNCHANGED <<immediate, timeout, lastSignal, funcRuns, served, cleared>>
    /\ UNCHANGED <<toast, timeoutId, toastShown, lastShow, lastDuration>>
    /\ UNCHANGED <<twVars, psVars, appVars>>

NavNext ==
    \/ ToggleClick
    \/ LinkClick
    \/ DocumentClick
    \/ KeyDown
    \/ NavResize
    \/ NavResizeFire

\* the particle system with ticks that may throw
PSFaultNext ==
    \/ PSConstructIdle
    \/ PSConstructInit
    \/ Tick
    \/ TickThrows
    \/ MouseMove
    \/ WindowResize
    \/ DebounceFire
    \/ Destroy

TWSpec == TWInit /\ [][TWNext]_vars

\* the typewriter with its scheduling: every pending setTimeout callback
\* eventually fires, and a paused engine is eventually resumed
TWFairSpec ==
    /\ TWInit
    /\ [][TWNext]_vars
    /\ WF_vars(TimerFire)
    /\ WF_vars(isPaused /\ Resume)

PSFaultSpec == PSInit /\ [][PSFaultNext]_vars

AppSpec == AppInit /\ [][AppNext]_vars

DebSpec == DebInit /\ [][DebNext]_vars

ToastSpec == ToastInit /\ [][ToastNext]_vars

NavSpec == NavInit /\ [][NavNext]_vars

PSSpec == PSInit /\ [][PSNext]_vars

\* ------------------------------------------------------------------------
\* Typewriter: properties
\* ------------------------------------------------------------------------

\* a type() body ran in this transition (it always moves charIndex)
TypeRan == charIndex' # charIndex

Card(bag) == BagCardinality(bag)

\* C1: for every phrase list of length >= 1, whatever the length of each
\* phrase, textIndex is in [0, len(texts)) and charIndex is in
\* [0, len(texts[textIndex])] in every reachable state.
C1_RangeInvariant ==
    Len(texts) >= 1 =>
        /\ textIndex \in 0..(Len(texts) - 1)
        /\ charIndex \in 0..Len(texts[textIndex + 1])

\* C2: successive type() steps render the current phrase one character
\* longer at a time up to the full phrase, then one character shorter at a
\* time down to the empty string, then go to the next phrase in cyclic order;
\* consecutive rendered lengths differ by exactly one.
C2_Cycle ==
    [][ (Len(texts) >= 1 /\ TypeRan) =>
          LET phrase == texts[textIndex + 1]
              grown == Len(textContent') = Len(textContent) + 1
              shrunk == Len(textContent') = Len(textContent) - 1
          IN  /\ Len(textContent') <= Len(phrase)
              /\ textContent' = SubSeq(phrase, 1, Len(textContent'))
              /\ ~typed => textIndex = 0 /\ Len(textContent') = 1
              /\ typed => IF isDeleting THEN shrunk ELSE grown
              /\ isDeleting' <=> (IF isDeleting THEN Len(textContent') # 0
                                  ELSE Len(textContent') = Len(phrase))
              /\ textIndex' = IF isDeleting /\ Len(textContent') = 0
                              THEN (textIndex + 1) % Len(texts)
                              ELSE textIndex
      ]_vars

\* C3: after every type() step that is not suppressed by pause, the element
\* shows the prefix of texts[textIndex] of length charIndex, with textIndex
\* and charIndex as they are after the step.
C3_PrefixRendering ==
    [][ (Len(texts) >= 1 /\ TypeRan) =>
          /\ Len(textContent') = charIndex'
          /\ textContent' = SubSeq(texts[textIndex' + 1], 1, charIndex')
      ]_vars

\* C4: the transition table of one unpaused step: typing to the full phrase
\* switches to deleting and re-arms with pauseTime, any other typing step
\* stays typing and re-arms with speed; deleting to 0 switches to typing,
\* advances textIndex cyclically and re-arms with 500, any other deleting
\* step stays deleting and re-arms with deleteSpeed; nothing else changes
\* isDeleting or textIndex, pause() in particular.
C4_TransitionTable ==
    [][ Len(texts) >= 1 =>
          /\ TypeRan =>
               LET len == Len(texts[textIndex + 1])
                   n == Len(texts)
                   armed == twTimers' (-) SetToBag({lastDelay'})
               IN  /\ (~isDeleting /\ charIndex' = len) =>
                          /\ isDeleting' /\ textIndex' = textIndex
                          /\ lastDelay' = options.pauseTime
                   /\ (~isDeleting /\ charIndex' # len) =>
                          /\ ~isDeleting' /\ textIndex' = textIndex
                          /\ lastDelay' = options.speed
                   /\ (isDeleting /\ charIndex' = 0) =>
                          /\ ~isDeleting' /\ textIndex' = (textIndex + 1) % n
                          /\ lastDelay' = CycleDelay
                   /\ (isDeleting /\ charIndex' # 0) =>
                          /\ isDeleting' /\ textIndex' = textIndex
                          /\ lastDelay' = options.deleteSpeed
                   \* exactly one timer armed, with that delay
                   /\ BagIn(lastDelay', twTimers')
                   /\ Card(armed) = Card(twTimers) - (IF lastOp' = "fire" THEN 1 ELSE 0)
                   /\ armed \sqsubseteq twTimers
          /\ ~TypeRan => UNCHANGED <<isDeleting, textIndex>>
          /\ lastOp' = "pause" => UNCHANGED <<isDeleting, textIndex, charIndex>>
      ]_vars

C4_Witness ==
    /\ lastOp = "fire" /\ Len(texts) = 2
    /\ textIndex = 1 /\ charIndex = 0 /\ ~isDeleting
    /\ lastDelay = CycleDelay

\* C5: a step that fires while isPaused is true changes none of textIndex,
\* charIndex, isDeleting or the rendered text, and schedules no further step.
C5_PausedStepFrame ==
    [][ (isPaused /\ lastOp' = "fire") =>
          /\ UNCHANGED <<textIndex, charIndex, isDeleting, textContent>>
          /\ Card(twTimers') = Card(twTimers) - 1
          /\ twTimers' \sqsubseteq twTimers
      ]_vars

C5_Witness ==
    /\ isPaused /\ lastOp = "fire" /\ typed
    /\ twTimers = EmptyBag /\ charIndex >= 1

\* C6: after pause() the pending step fires without rescheduling, so the
\* loop stops and the suspended state is kept; resume() clears the flag and
\* performs exactly one step synchronously, from the textIndex, charIndex
\* and mode held at the moment of pause.
C6_PauseResume ==
    [][ /\ lastOp' = "pause" => isPaused'
        \* while paused nothing is armed and the state stays the one at pause
        /\ (isPaused /\ isPaused') => twTimers' \sqsubseteq twTimers
        /\ isPaused' => <<textIndex', charIndex', isDeleting'>> = atPause'
        \* resume after a pause: one step from the state at pause
        /\ (isPaused /\ lastOp' = "resume" /\ Len(texts) >= 1) =>
              LET ti == atPause[1]
                  ci == atPause[2]
                  del == atPause[3]
                  len == Len(texts[ti + 1])
              IN  /\ ~isPaused'
                  /\ charIndex' = IF del THEN ci - 1 ELSE ci + 1
                  /\ textContent' = SubSeq(texts[ti + 1], 1, Min(len, charIndex'))
                  /\ textIndex' \in {ti, (ti + 1) % Len(texts)}
                  /\ Card(twTimers') = Card(twTimers) + 1
      ]_vars

C6_Witness ==
    /\ lastOp = "resume" /\ ~isPaused
    /\ atPause = <<1, 1, TRUE>>
    /\ textIndex = 0 /\ charIndex = 0 /\ ~isDeleting
    /\ Card(twTimers) = 1

\* C7: with the reduced-motion flag active at construction, the element
\* shows texts[0] in full and no step is ever scheduled or run, whatever
\* pause() and resume() calls follow.
C7_ReducedMotionNoSteps ==
    (reducedMotion /\ twPc = "ready" /\ Len(texts) >= 1) =>
        /\ textContent = texts[1]
        /\ twTimers = EmptyBag
        /\ ~typed


\* ------------------------------------------------------------------------
\* Motion engine: properties
\* ------------------------------------------------------------------------

Sign(v) == IF v > 0 THEN 1 ELSE IF v < 0 THEN -1 ELSE 0

PSIdle == psPc = "ready" /\ ~(container /\ ~reducedMotion)

\* C8: with the container absent or reduced motion active at construction,
\* the engine creates no particle, binds no pointer or resize listener,
\* never runs a tick and never requests an animation frame, and destroy()
\* changes nothing.
C8_IdleEngine ==
    [][ PSIdle' =>
          /\ particles' = <<>> /\ domChildren' = 0
          /\ ~listeners' /\ debLive' = 0 /\ ~debTimeout'
          /\ ticks' = 0 /\ rafPending' = 0
          /\ mouse' = [x |-> 0, y |-> 0]
          /\ psLastOp' = "destroy" =>
                UNCHANGED <<container, particles, mouse, innerWidth,
                            innerHeight, domChildren, listeners, rafPending,
                            debTimeout, debLive, psPc, ticks>>
      ]_vars

C8_Witness ==
    /\ PSIdle /\ container /\ reducedMotion
    /\ psLastOp = "destroy"
    /\ seenSize # <<innerWidth, innerHeight>>

InViewport(p, w, h) == p.x \in 0..w /\ p.y \in 0..h

\* C9 as claimed: in every reachable state every particle's x lies in
\* [0, current viewportWidth] and its y in [0, current viewportHeight].
C9_PositionInvariant ==
    psPc = "ready" =>
        \A i \in 1..Len(particles) :
            InViewport(particles[i], innerWidth, innerHeight)

\* C9 as amended: every particle's x and y are never negative, and lie
\* within the viewport size read by the most recent creation, tick or
\* resize-handler run; hence within the current viewport whenever the
\* viewport has not changed since.
C9_PositionWithinSeenViewport ==
    psPc = "ready" =>
        \A i \in 1..Len(particles) :
            /\ InViewport(particles[i], seenSize[1], seenSize[2])
            /\ seenSize = <<innerWidth, innerHeight>> =>
                  InViewport(particles[i], innerWidth, innerHeight)

C9_Witness ==
    /\ psLastOp = "debounce"
    /\ \E i \in 1..Len(particles) :
          /\ particles[i].x = innerWidth
          /\ particles[i].left > innerWidth

TickRan == ticks' = ticks + 1

\* C10 as claimed: in every tick, a particle whose advanced x is <= 0 or
\* >= viewportWidth ends the tick with vx of the opposite sign and x in
\* [0, viewportWidth]; likewise y, vy, viewportHeight.  A velocity of zero
\* has no sign to flip and is left out.
C10_ReflectionFlipsSign ==
    [][ (TickRan /\ psPc = "ready") =>
          \A i \in 1..Len(particles) :
            LET p == particles[i]
                q == particles'[i]
            IN  /\ HitsEdge(p.x + p.vx, innerWidth) =>
                      /\ p.vx # 0 => Sign(q.vx) = -Sign(p.vx)
                      /\ q.x \in 0..innerWidth
                /\ HitsEdge(p.y + p.vy, innerHeight) =>
                      /\ p.vy # 0 => Sign(q.vy) = -Sign(p.vy)
                      /\ q.y \in 0..innerHeight
      ]_vars

\* C10 as amended: in every tick, a particle whose advanced x is <= 0 or
\* >= viewportWidth ends the tick with x in [0, viewportWidth] and with vx
\* equal to the negated start-of-tick vx plus that tick's pointer-force
\* change; so vx has exactly flipped when the pointer is at distance >= 100
\* from the particle's new position; likewise y, vy, viewportHeight.
C10_ReflectionThenForce ==
    [][ (TickRan /\ psPc = "ready") =>
          \A i \in 1..Len(particles) :
            LET p == particles[i]
                q == particles'[i]
                dx == mouse.x - q.x
                dy == mouse.y - q.y
                far == dx * dx + dy * dy >= (Radius * Unit) * (Radius * Unit)
            IN  /\ HitsEdge(p.x + p.vx, innerWidth) =>
                      /\ q.x \in 0..innerWidth
                      /\ q.vx - ForceDelta(dx, dx, dy) = -p.vx
                      /\ far => q.vx = -p.vx
                /\ HitsEdge(p.y + p.vy, innerHeight) =>
                      /\ q.y \in 0..innerHeight
                      /\ q.vy - ForceDelta(dy, dx, dy) = -p.vy
                      /\ far => q.vy = -p.vy
      ]_vars

C10_Witness ==
    /\ psLastOp = "tick" /\ ticks >= 2
    /\ \E i \in 1..Len(particles) :
          /\ particles[i].x = innerWidth
          /\ particles[i].vx > 0
          /\ Near(mouse.x - particles[i].x, mouse.y - particles[i].y)


\* the change of vx / vy made by the mouse-interaction block of this tick:
\* the end-of-tick velocity minus the velocity left by the edge bounce
ForceChangeX(i) ==
    particles'[i].vx
      - Reflected(particles[i].vx,
                  HitsEdge(particles[i].x + particles[i].vx, innerWidth))

ForceChangeY(i) ==
    particles'[i].vy
      - Reflected(particles[i].vy,
                  HitsEdge(particles[i].y + particles[i].vy, innerHeight))

\* the pointer is within the interaction radius of particle i as moved and
\* reflected by this tick
PointerNear(i) ==
    LET dx == mouse.x - particles'[i].x
        dy == mouse.y - particles'[i].y
    IN  dx * dx + dy * dy < (Radius * Unit) * (Radius * Unit)

\* C11 as claimed: in a tick where the pointer is closer than 100 to a
\* particle, the change of vx has the sign of (pointerX - x) and the change
\* of vy the sign of (pointerY - y): it points toward the pointer.  (A change
\* of zero is let pass.)
C11_ForceTowardPointer ==
    [][ (TickRan /\ psPc = "ready") =>
          \A i \in 1..Len(particles) :
            PointerNear(i) =>
              /\ ForceChangeX(i) * (mouse.x - particles'[i].x) >= 0
              /\ ForceChangeY(i) * (mouse.y - particles'[i].y) >= 0
      ]_vars

\* C11 as amended: in a tick where the pointer is closer than 100 to a
\* particle, the change of vx is zero or has the sign opposite to
\* (pointerX - x), and the change of vy is zero or has the sign opposite to
\* (pointerY - y): it points away from the pointer; it is zero when that
\* difference is zero.
C11_ForceAwayFromPointer ==
    [][ (TickRan /\ psPc = "ready") =>
          \A i \in 1..Len(particles) :
            PointerNear(i) =>
              LET dx == mouse.x - particles'[i].x
                  dy == mouse.y - particles'[i].y
              IN  /\ ForceChangeX(i) * dx <= 0
                  /\ ForceChangeY(i) * dy <= 0
                  /\ dx = 0 => ForceChangeX(i) = 0
                  /\ dy = 0 => ForceChangeY(i) = 0
      ]_vars

\* after a pointer move, a particle inside the pointer's radius moves away
\* from it faster than createParticles can make it
C11_Witness ==
    /\ psLastOp = "tick"
    /\ mouse.x > 0
    /\ \E i \in 1..Len(particles) :
          /\ Near(mouse.x - particles[i].x, mouse.y - particles[i].y)
          /\ \/ mouse.x < particles[i].x /\ particles[i].vx > Unit \div 2
             \/ mouse.x > particles[i].x /\ particles[i].vx < -(Unit \div 2)

\* C12: in a tick where the pointer is at distance >= 100 from a particle,
\* measured after that tick's move and reflection, the mouse-interaction
\* block leaves that particle's vx and vy unchanged; a tick never writes the
\* pointer state.
C12_ForceRadius ==
    [][ (TickRan /\ psPc = "ready") =>
          /\ mouse' = mouse
          /\ \A i \in 1..Len(particles) :
               ~PointerNear(i) => ForceChangeX(i) = 0 /\ ForceChangeY(i) = 0
      ]_vars

C12_Witness ==
    /\ psLastOp = "tick"
    /\ mouse.x > 0
    /\ \E i \in 1..Len(particles) :
          LET dx == mouse.x - particles[i].x
              dy == mouse.y - particles[i].y
          IN  /\ ~Near(dx, dy)
              /\ Near_WiderRadius(dx, dy)

\* C13: after the first destroy() no further tick runs, no render update is
\* pushed (no particle's on-screen left/top changes) and no new frame or
\* timer is scheduled.
C13_NothingAfterDispose ==
    [][ disposed =>
          /\ ~TickRan
          /\ rafPending' <= rafPending
          /\ debLive' <= debLive
          /\ \A i \in 1..Len(particles) :
               /\ particles'[i].left = particles[i].left
               /\ particles'[i].top = particles[i].top
      ]_vars

\* C14: once the engine has initialised, exactly one animation-frame callback
\* is pending in every state (each animate() consumes one and schedules one,
\* so no two ticks are in flight and the chain does not end); an engine that
\* returned early has none.
C14_SingleFramePending ==
    psPc = "ready" =>
        rafPending = IF EngineEnabled(container, reducedMotion) THEN 1 ELSE 0

C14_Witness ==
    /\ psLastOp = "tick"
    /\ ticks >= 2
    /\ rafPending = 1

\* C15: when handleResize() runs, every particle ends with x <= innerWidth
\* and y <= innerHeight; vx, vy, size, opacity and the on-screen left/top of
\* every particle are unchanged, a coordinate already inside the new bound
\* is unchanged, and no other field of the engine changes.
C15_ResizeClamp ==
    [][ psLastOp' = "debounce" =>
          /\ Len(particles') = Len(particles)
          /\ \A i \in 1..Len(particles) :
               LET p == particles[i]
                   q == particles'[i]
               IN  /\ q.x <= innerWidth
                   /\ q.y <= innerHeight
                   /\ p.x <= innerWidth => q.x = p.x
                   /\ p.y <= innerHeight => q.y = p.y
                   /\ q.vx = p.vx /\ q.vy = p.vy
                   /\ q.size = p.size /\ q.opacity = p.opacity
                   /\ q.left = p.left /\ q.top = p.top
          /\ UNCHANGED <<mouse, innerWidth, innerHeight, domChildren,
                         listeners, rafPending, container>>
      ]_vars

C15_Witness ==
    /\ psLastOp = "debounce"
    /\ \E i \in 1..Len(particles) :
          /\ particles[i].y = innerHeight
          /\ particles[i].top > innerHeight

\* C19: an initialised engine holds exactly ParticleCount particles; no
\* operation after construction changes the number of particles or a
\* particle's size or opacity; the particle elements are added all at once
\* by construction and removed all at once by destroy(), by nothing else.
C19_FixedPopulation ==
    [][ /\ (psPc' = "ready" /\ EngineEnabled(container, reducedMotion)) =>
              Len(particles') = ParticleCount
        /\ psPc = "ready" =>
              /\ Len(particles') = Len(particles)
              /\ \A i \in 1..Len(particles) :
                   /\ particles'[i].size = particles[i].size
                   /\ particles'[i].opacity = particles[i].opacity
        /\ domChildren' # domChildren =>
              \/ psLastOp' = "construct" /\ domChildren' = ParticleCount
              \/ psLastOp' = "destroy" /\ domChildren' = 0
      ]_vars

C19_Witness ==
    /\ psLastOp = "destroy"
    /\ ticks >= 2
    /\ debLive = 0
    /\ mouse.x > 0
    /\ domChildren = 0
    /\ Len(particles) = ParticleCount

\* C20: a TypingEffect constructed with an empty texts array has thrown in
\* its constructor, in the normal and in the reduced-motion path alike, and
\* has no step scheduled.
C20_EmptyListRejected ==
    (Len(texts) = 0 /\ twPc \notin {"absent", "constructing"}) =>
        /\ twPc = "threw"
        /\ twTimers = EmptyBag

\* C17: with at least one phrase and the timed animation running, every
\* phrase of the list is fully displayed infinitely often: again and again
\* textIndex is that phrase's index and the rendered text is the whole
\* phrase.
C17_EveryPhraseRecurs ==
    \A i \in 1..MaxTexts :
        []<>( (twPc = "ready" /\ ~reducedMotion /\ Len(texts) >= i) =>
                  (textIndex = i - 1 /\ textContent = texts[i]) )

\* C18: when a tick raises an exception part-way through, the chain is not
\* terminated: an animation frame is still pending after the failed tick.
C18_FailedTickSkipped ==
    [][ psLastOp' = "tickthrow" => rafPending' >= 1 ]_vars

\* C16: when the setup of one component throws during
\* initializeComponents(), the error is logged and every other statement of
\* the initialisation, the later components, the particle system and the
\* typing-effect timer included, has still run.
C16_InitErrorIsolation ==
    (appPc = "initialised" /\ failed # "none") =>
        /\ appLog = "error"
        /\ \A i \in 1..Len(Steps) : Steps[i] # failed => Steps[i] \in completed

\* C21: after any sequence of constructor, pause() and resume() calls and
\* timer firings, at most one setTimeout(type) callback is pending.
C21_SingleChain ==
    twPc = "ready" => BagCardinality(twTimers) <= 1

\* C22: for a closure made by debounce(func, wait) without immediate: at
\* most one of its timers is pending; func runs only when at least `wait`
\* has passed since the last trigger signal, and only once per burst (not
\* again before a new signal); a burst that has not been served yet has its
\* timer pending, due `wait` after the burst's last signal; a served burst
\* has none.
C22_Debounce ==
    [][ ~immediate =>
          /\ Cardinality(hostTimers') <= 1
          /\ funcRuns' # funcRuns =>
                /\ funcRuns' = funcRuns + 1
                /\ now - lastSignal >= ResizeWait
                /\ lastSignal >= 0
                /\ ~served
          /\ (lastSignal' >= 0 /\ ~served') =>
                hostTimers' = {[id |-> timeout', due |-> lastSignal' + ResizeWait]}
          /\ served' => hostTimers' = {}
      ]_vars

\* func has run after a burst in which a later signal cancelled the timer
\* of an earlier one
C22_Witness ==
    /\ uiPc = "debounce" /\ ~immediate
    /\ uiLastOp = "later"
    /\ cleared >= 1
    /\ funcRuns >= 1

\* C23: after any sequence of show(), hide() and timer firings at most one
\* hide timer is pending; a visible toast has exactly the timer of the most
\* recent show(), due `duration` after it, so only hide() or that timer,
\* no sooner than `duration` after the most recent show(), makes it
\* invisible; a hidden toast has no pending timer.
C23_ToastTimer ==
    [][ /\ Cardinality(hostTimers') <= 1
        /\ toastShown' =>
              hostTimers' = {[id |-> timeoutId', due |-> lastShow' + lastDuration']}
        /\ ~toastShown' => hostTimers' = {} /\ timeoutId' = 0
        /\ (toastShown /\ ~toastShown') =>
              \/ uiLastOp' = "hide"
              \/ /\ uiLastOp' = "expire"
                 /\ now >= lastShow + lastDuration
      ]_vars

\* the timer of a second show(), which cancelled the first one's, has hidden
\* the toast
C23_Witness ==
    /\ uiPc = "toast" /\ toast
    /\ uiLastOp = "expire"
    /\ ~toastShown
    /\ cleared >= 1
    /\ lastShow > 0

\* C24: in every state reached through toggle clicks, link clicks, document
\* clicks, key presses and debounced resizes, isOpen is true exactly when
\* the menu has class 'active', exactly when aria-expanded is 'true' and
\* exactly when the body's overflow is 'hidden'; a toggle click inverts
\* isOpen; no other handler opens the menu.
C24_MenuConsistency ==
    [][ /\ isOpen' <=> menuActive'
        /\ isOpen' <=> (ariaExpanded' = "true")
        /\ isOpen' <=> (bodyOverflow' = "hidden")
        /\ (uiLastOp' = "toggle" /\ navBound) => isOpen' = ~isOpen
        /\ uiLastOp' # "toggle" => (isOpen' => isOpen)
      ]_vars

\* a menu that had been opened is closed after the debounced resize handler
\* ran above the breakpoint
C24_Witness ==
    /\ uiPc = "nav"
    /\ uiLastOp = "resizefire"
    /\ navInnerWidth > MobileBreakpoint
    /\ ~isOpen
    /\ ariaExpanded = "false"

====
